---- MODULE Spec2Model ----
(***************************************************************************)
(* A model of the decision layer of the Qodana CLI:                        *)
(*   - platform/statistics.go : the FUS event channel, its producers, the  *)
(*     consumer goroutine and sendFuserEvents                               *)
(*   - core/properties.go     : getPropertiesMap and GetProperties         *)
(*   - core/configurator.go   : recognizeDirLanguages, langsAnalyzers      *)
(*   - platform utilities     : Contains, Append, QuoteIfSpace,            *)
(*     GetDeviceIdSalt, IsContainer                                        *)
(* Strings are TLA+ strings; Head, Tail, SubSeq, Len and \o act on them as *)
(* on sequences of one-character strings.                                  *)
(***************************************************************************)
EXTENDS Integers, Sequences, FiniteSets, TLC

VARIABLES
    \* ---- platform/statistics.go
    wg,             \* the package-level sync.WaitGroup counter
    chClosed,       \* close(ch) has run
    events,         \* *events, the buffer the consumer appends to
    enqueued,       \* history: events whose send on ch has completed
    prodPc,         \* position of each producer call
    prodCalls,      \* completed calls of each producer
    consPc,         \* position of the consumer goroutine
    consEvent,      \* the event the consumer holds between receive and append
    sendPc,         \* position of sendFuserEvents
    noStatistics,   \* opts.NoStatistics
    allowedFUS,     \* cloud.Token.IsAllowedToSendFUS()
    linterOptions,  \* opts.GetLinterSpecificOptions() != nil
    createOk,       \* os.Create(fileName) succeeds
    fuserFile,      \* fuser.json: "absent", "created" or the written events
    launched,       \* LaunchAndLog(opts, "fuser", ...) has run
    panicked,       \* a goroutine panicked (send on a closed channel)
    \* ---- platform.GetDeviceIdSalt, one environment per invocation
    env,            \* os.Getenv: SALT, DEVICEID, QODANA_REMOTE_URL
    gitOrigin,      \* outcome of `git remote get-url origin`
    deviceIdSalt,   \* what GetDeviceIdSalt returned (<<>> before the call)
    \* ---- the linter selector over langsAnalyzers
    languages,      \* the detected languages handed to the selector
    langPos,        \* index of the next language to look up
    analyzers,      \* the candidate list built so far
    \* ---- core/properties.go
    opts,           \* *QodanaOptions: directories, debug port, analysis id, Properties()
    yamlProps,      \* qodana.yaml properties
    dotNetOptions,  \* platform.DotNet
    plugins,        \* required plugin ids
    prod,           \* Prod: parent prefix, version branch, custom plugins directory
    propEnv,        \* the process environment GetProperties runs in
    propLines,      \* what each run of GetProperties returned ("none" before it)
    defaultProps,   \* what getPropertiesMap returned to that run
    \* ---- core/configurator.go: recognizeDirLanguages
    tree,           \* the project tree, its entries in the order filepath.Walk meets them
    scanRun,        \* which scan of the tree is running
    walkPos,        \* index of the next entry of the walk
    skipped,        \* directories whose subtree the walk does not enter
    out,            \* out: language -> count
    walkErr,        \* the error filepath.Walk is going to return
    counted,        \* history: entries that incremented a counter
    sampled,        \* history: entry -> number of bytes readFile returned
    scanResult      \* what each scan returned

fusVars == <<wg, chClosed, events, enqueued, prodPc, prodCalls, consPc, consEvent,
             sendPc, noStatistics, allowedFUS, linterOptions, createOk, fuserFile,
             launched, panicked>>

devVars == <<env, gitOrigin, deviceIdSalt>>

selVars == <<languages, langPos, analyzers>>

propVars == <<opts, yamlProps, dotNetOptions, plugins, prod, propEnv, propLines,
              defaultProps>>

scanVars == <<tree, scanRun, walkPos, skipped, out, walkErr, counted, sampled, scanResult>>

vars == <<fusVars, devVars, selVars, propVars, scanVars>>

FusOnly == UNCHANGED <<devVars, selVars, propVars, scanVars>>

DevOnly == UNCHANGED <<fusVars, selVars, propVars, scanVars>>

SelOnly == UNCHANGED <<fusVars, devVars, propVars, scanVars>>

PropOnly == UNCHANGED <<fusVars, devVars, selVars, scanVars>>

ScanOnly == UNCHANGED <<fusVars, devVars, selVars, propVars>>

-----------------------------------------------------------------------------
(* Generic helpers *)

Range(s) == {s[i] : i \in 1..Len(s)}

\* The printable ASCII characters in code order: 32 (space) to 95 (_), and
\* 97 (a) to 126 (~).
AsciiLow == " !\"#$%&'()*+,-./0123456789:;<=>?@ABCDEFGHIJKLMNOPQRSTUVWXYZ[\\]^_"

AsciiHigh == "abcdefghijklmnopqrstuvwxyz{|}~"

NewLine == "\n"

Quote == "\""

CharsOf(s) == {SubSeq(s, i, i) : i \in 1..Len(s)}

IndexIn(s, c) == CHOOSE i \in 1..Len(s) : SubSeq(s, i, i) = c

\* The byte value of a one-character string.
ByteOf ==
    [c \in CharsOf(AsciiLow) \cup CharsOf(AsciiHigh) \cup {NewLine} |->
        IF c = NewLine THEN 10
        ELSE IF c \in CharsOf(AsciiLow) THEN 31 + IndexIn(AsciiLow, c)
        ELSE 96 + IndexIn(AsciiHigh, c)]

\* Go's < on strings: bytewise lexical order.
RECURSIVE StrLess(_, _)
StrLess(a, b) ==
    IF b = "" THEN FALSE
    ELSE IF a = "" THEN TRUE
    ELSE IF ByteOf[Head(a)] # ByteOf[Head(b)] THEN ByteOf[Head(a)] < ByteOf[Head(b)]
    ELSE StrLess(Tail(a), Tail(b))

\* strings.HasPrefix
HasPrefix(s, prefix) ==
    Len(s) >= Len(prefix) /\ SubSeq(s, 1, Len(prefix)) = prefix

\* strings.Contains(s, " ")
ContainsSpace(s) == \E i \in 1..Len(s) : SubSeq(s, i, i) = " "

IsSpace(c) == c = " " \/ c = NewLine

\* strings.TrimSpace
RECURSIVE TrimLeft(_)
TrimLeft(s) == IF s # "" /\ IsSpace(Head(s)) THEN TrimLeft(Tail(s)) ELSE s

RECURSIVE TrimRight(_)
TrimRight(s) ==
    IF s # "" /\ IsSpace(SubSeq(s, Len(s), Len(s)))
    THEN TrimRight(SubSeq(s, 1, Len(s) - 1))
    ELSE s

TrimSpace(s) == TrimRight(TrimLeft(s))

\* Go's s[lo:hi] (0-based, hi exclusive)
Slice(s, lo, hi) == SubSeq(s, lo + 1, hi)

\* platform.QuoteIfSpace
QuoteIfSpace(s) == IF ContainsSpace(s) THEN Quote \o s \o Quote ELSE s

\* platform.Contains
Contains(s, str) == \E i \in 1..Len(s) : s[i] = str

\* append(slice, elems[0]) without the membership test.
PlatformAppendAlways(slice, elem) == Append(slice, elem)

\* platform.Append: appends elems[0] to the slice if it is not already there.
PlatformAppend(slice, elem) ==
    IF ~Contains(slice, elem) THEN Append(slice, elem) ELSE slice

-----------------------------------------------------------------------------
(***************************************************************************)
(* platform/statistics.go                                                  *)
(***************************************************************************)

\* How many times each producer may be called in one run.
MaxCalls == 1

Producers == {"logProjectOpen", "logProjectClose", "logOs"}

NoEvent == [EventName |-> "", Call |-> 0, SessionId |-> ""]

guid == "guid"

\* The event each producer puts on the channel (SessionId is set by the consumer).
EventOf(p, n) ==
    [EventName |-> CASE p = "logProjectOpen"  -> "project.opened"
                     [] p = "logProjectClose" -> "project.closed"
                     [] OTHER                 -> "os.name",
     Call |-> n,
     SessionId |-> ""]

\* The state createFuserEventChannel leaves: an open channel, an empty buffer,
\* the consumer waiting to receive.
FusStart ==
    /\ wg = 0
    /\ chClosed = FALSE
    /\ events = <<>>
    /\ enqueued = {}
    /\ prodPc = [p \in Producers |-> "call"]
    /\ prodCalls = [p \in Producers |-> 0]
    /\ consPc = "recv"
    /\ consEvent = NoEvent
    /\ sendPc = "wait"
    /\ fuserFile = "absent"
    /\ launched = FALSE
    /\ panicked = FALSE

\* The statistics path at rest, for the specifications of the other components.
IdleFus ==
    /\ FusStart
    /\ noStatistics = FALSE
    /\ allowedFUS = TRUE
    /\ linterOptions = TRUE
    /\ createOk = TRUE

\* logProjectOpen / logProjectClose / logOs, first statement: wg.Add(1)
ProducerAdd(p) ==
    /\ ~panicked
    /\ prodPc[p] = "call"
    /\ prodCalls[p] < MaxCalls
    /\ wg' = wg + 1
    /\ prodPc' = [prodPc EXCEPT ![p] = "send"]
    /\ UNCHANGED <<chClosed, events, enqueued, prodCalls, consPc, consEvent, sendPc,
                   noStatistics, allowedFUS, linterOptions, createOk, fuserFile,
                   launched, panicked>>
    /\ FusOnly

\* ch <- event on the unbuffered channel: completes only together with the
\* consumer's receive (for event := range ch).
ProducerSend(p) ==
    /\ ~panicked
    /\ prodPc[p] = "send"
    /\ ~chClosed
    /\ consPc = "recv"
    /\ consEvent' = EventOf(p, prodCalls[p] + 1)
    /\ enqueued' = enqueued \cup {EventOf(p, prodCalls[p] + 1)}
    /\ consPc' = "append"
    /\ prodCalls' = [prodCalls EXCEPT ![p] = @ + 1]
    /\ prodPc' = [prodPc EXCEPT ![p] = "call"]
    /\ UNCHANGED <<wg, chClosed, events, sendPc, noStatistics, allowedFUS,
                   linterOptions, createOk, fuserFile, launched, panicked>>
    /\ FusOnly

\* ch <- event after close(ch): the send panics and the process dies.
ProducerSendClosed(p) ==
    /\ ~panicked
    /\ prodPc[p] = "send"
    /\ chClosed
    /\ panicked' = TRUE
    /\ UNCHANGED <<wg, chClosed, events, enqueued, prodPc, prodCalls, consPc,
                   consEvent, sendPc, noStatistics, allowedFUS, linterOptions,
                   createOk, fuserFile, launched>>
    /\ FusOnly

\* consumer: event.SessionId = guid; *events = append(*events, event)
ConsumerAppend ==
    /\ ~panicked
    /\ consPc = "append"
    /\ events' = Append(events, [consEvent EXCEPT !.SessionId = guid])
    /\ consPc' = "wgDone"
    /\ UNCHANGED <<wg, chClosed, enqueued, prodPc, prodCalls, consEvent, sendPc,
                   noStatistics, allowedFUS, linterOptions, createOk, fuserFile,
                   launched, panicked>>
    /\ FusOnly

\* consumer: wg.Done(), then back to the range receive
ConsumerDone ==
    /\ ~panicked
    /\ consPc = "wgDone"
    /\ wg' = wg - 1
    /\ consPc' = "recv"
    /\ consEvent' = NoEvent
    /\ UNCHANGED <<chClosed, events, enqueued, prodPc, prodCalls, sendPc,
                   noStatistics, allowedFUS, linterOptions, createOk, fuserFile,
                   launched, panicked>>
    /\ FusOnly

\* consumer: range over a closed channel ends the goroutine
ConsumerExit ==
    /\ ~panicked
    /\ consPc = "recv"
    /\ chClosed
    /\ consPc' = "exit"
    /\ UNCHANGED <<wg, chClosed, events, enqueued, prodPc, prodCalls, consEvent,
                   sendPc, noStatistics, allowedFUS, linterOptions, createOk,
                   fuserFile, launched, panicked>>
    /\ FusOnly

SendStep(from, to) ==
    /\ ~panicked
    /\ sendPc = from
    /\ sendPc' = to
    /\ UNCHANGED <<wg, events, enqueued, prodPc, prodCalls, consPc, consEvent,
                   noStatistics, allowedFUS, linterOptions, createOk, panicked>>
    /\ FusOnly

\* sendFuserEvents: wg.Wait() returns when the counter is zero
SendWait ==
    /\ wg = 0
    /\ SendStep("wait", "close")
    /\ UNCHANGED <<chClosed, fuserFile, launched>>

\* sendFuserEvents: close(ch)
SendClose ==
    /\ SendStep("close", "checkNoStatistics")
    /\ chClosed' = TRUE
    /\ UNCHANGED <<fuserFile, launched>>

\* if opts.NoStatistics { return }
SendCheckNoStatistics ==
    /\ SendStep("checkNoStatistics", IF noStatistics THEN "return" ELSE "checkAllowed")
    /\ UNCHANGED <<chClosed, fuserFile, launched>>

\* A check that lets the run go on whatever the flag says.
SendCheckAllowedIgnored ==
    /\ SendStep("checkAllowed", "getLinterOptions")
    /\ UNCHANGED <<chClosed, fuserFile, launched>>

\* if !cloud.Token.IsAllowedToSendFUS() { return }
SendCheckAllowed ==
    /\ SendStep("checkAllowed", IF ~allowedFUS THEN "return" ELSE "getLinterOptions")
    /\ UNCHANGED <<chClosed, fuserFile, launched>>

\* if linterOptions == nil { return }
SendGetLinterOptions ==
    /\ SendStep("getLinterOptions", IF ~linterOptions THEN "return" ELSE "marshal")
    /\ UNCHANGED <<chClosed, fuserFile, launched>>

\* fatBytes, err := json.Marshal(*events); f, err := os.Create(fileName)
\* The buffer is read here; the bytes are held until the write.
SendMarshalCreate ==
    /\ SendStep("marshal", IF createOk THEN "write" ELSE "return")
    /\ fuserFile' = IF createOk THEN <<"created", events>> ELSE fuserFile
    /\ UNCHANGED <<chClosed, launched>>

\* f.Write(fatBytes)
SendWrite ==
    /\ SendStep("write", "launch")
    /\ fuserFile' = <<"written", fuserFile[2]>>
    /\ UNCHANGED <<chClosed, launched>>

\* LaunchAndLog(opts, "fuser", args...)
SendLaunch ==
    /\ SendStep("launch", "return")
    /\ launched' = TRUE
    /\ UNCHANGED <<chClosed, fuserFile>>

NextFus ==
    \/ \E p \in Producers : ProducerAdd(p)
    \/ \E p \in Producers : ProducerSend(p)
    \/ \E p \in Producers : ProducerSendClosed(p)
    \/ ConsumerAppend
    \/ ConsumerDone
    \/ ConsumerExit
    \/ SendWait
    \/ SendClose
    \/ SendCheckNoStatistics
    \/ SendCheckAllowed
    \/ SendGetLinterOptions
    \/ SendMarshalCreate
    \/ SendWrite
    \/ SendLaunch

IdleDev ==
    /\ env = <<>>
    /\ gitOrigin = <<>>
    /\ deviceIdSalt = <<>>

IdleSel ==
    /\ languages = <<>>
    /\ langPos = 1
    /\ analyzers = <<>>

IdleScan ==
    /\ tree = <<>>
    /\ scanRun = 1
    /\ walkPos = 1
    /\ skipped = {}
    /\ out = <<>>
    /\ walkErr = "nil"
    /\ counted = {}
    /\ sampled = <<>>
    /\ scanResult = <<>>

IdleProp ==
    /\ opts = <<>>
    /\ yamlProps = <<>>
    /\ dotNetOptions = <<>>
    /\ plugins = <<>>
    /\ prod = <<>>
    /\ propEnv = <<>>
    /\ propLines = <<>>
    /\ defaultProps = <<>>

InitFus ==
    /\ FusStart
    /\ noStatistics \in BOOLEAN
    /\ allowedFUS \in BOOLEAN
    /\ linterOptions \in BOOLEAN
    /\ createOk \in BOOLEAN
    /\ IdleDev
    /\ IdleSel
    /\ IdleProp
    /\ IdleScan

SpecFus == InitFus /\ [][NextFus]_vars

-----------------------------------------------------------------------------
(***************************************************************************)
(* platform: getRemoteUrl, GetDeviceIdSalt                                 *)
(***************************************************************************)

HexDigits == "0123456789abcdef"

RECURSIVE Mix(_, _)
Mix(s, h) == IF s = "" THEN h ELSE Mix(Tail(s), (h * 31 + ByteOf[Head(s)]) % 65521)

RECURSIVE HexStream(_, _)
HexStream(h, n) ==
    IF n = 0 THEN ""
    ELSE LET h2 == (h * 75 + 74) % 65537
         IN  SubSeq(HexDigits, (h2 % 16) + 1, (h2 % 16) + 1) \o HexStream(h2, n - 1)

\* fmt.Sprintf("%x", md5.Sum(b)): a digest of every byte of the input, printed
\* as 32 lowercase hex digits. The digest is a small mixing function standing
\* for MD5: deterministic, total, of fixed width.
Md5Hex(s) == HexStream(Mix(s, 7), 32)

\* The invocations of GetDeviceIdSalt that are compared with one another.
Invocations == {1, 2}

InitDev ==
    /\ IdleFus
    /\ IdleSel
    /\ IdleProp
    /\ IdleScan
    /\ env \in [Invocations ->
                 [SALT : {"", "s41t"}, DEVICEID : {"", "dev-1"},
                  QODANA_REMOTE_URL : {"", " https://h/r.git"}]]
    /\ gitOrigin \in [Invocations ->
                 {[err |-> TRUE, out |-> ""],
                  [err |-> FALSE, out |-> "https://h/r.git" \o NewLine],
                  [err |-> FALSE, out |-> "git@h:q.git" \o NewLine]}]
    /\ deviceIdSalt = [i \in Invocations |-> <<>>]

\* getRemoteUrl
GetRemoteUrl(e, git) ==
    IF e.QODANA_REMOTE_URL = ""
    THEN IF git.err THEN "" ELSE TrimSpace(git.out)
    ELSE TrimSpace(e.QODANA_REMOTE_URL)

\* hash: the all-zero placeholder, or the first keyed hash of the remote URL
UrlHash(remoteUrl) ==
    IF remoteUrl # "" THEN Md5Hex("1n1T-$@Lt-" \o remoteUrl)
    ELSE "00000000000000000000000000000000"

\* salt = fmt.Sprintf("%x", md5.Sum([]byte("$eC0nd-$@Lt-"+hash)))
DerivedSalt(hash) == Md5Hex("$eC0nd-$@Lt-" \o hash)

\* deviceId = fmt.Sprintf("200820300000000-%s-%s-%s-%s", hash[0:4], ...)
DerivedDeviceId(hash) ==
    "200820300000000-" \o Slice(hash, 0, 4) \o "-" \o Slice(hash, 4, 8) \o "-"
        \o Slice(hash, 8, 12) \o "-" \o Slice(hash, 12, 24)

\* GetDeviceIdSalt deriving both values as soon as one of them is missing.
GetDeviceIdSaltBoth(e, git) ==
    LET hash == UrlHash(GetRemoteUrl(e, git))
    IN  IF e.SALT = "" \/ e.DEVICEID = ""
        THEN <<DerivedDeviceId(hash), DerivedSalt(hash)>>
        ELSE <<e.DEVICEID, e.SALT>>

\* GetDeviceIdSalt: []string{deviceId, salt}
GetDeviceIdSalt(e, git) ==
    IF e.SALT = "" \/ e.DEVICEID = ""
    THEN LET hash == UrlHash(GetRemoteUrl(e, git))
         IN  <<IF e.DEVICEID = "" THEN DerivedDeviceId(hash) ELSE e.DEVICEID,
               IF e.SALT = "" THEN DerivedSalt(hash) ELSE e.SALT>>
    ELSE <<e.DEVICEID, e.SALT>>

CallGetDeviceIdSalt(i) ==
    /\ deviceIdSalt[i] = <<>>
    /\ deviceIdSalt' = [deviceIdSalt EXCEPT ![i] = GetDeviceIdSalt(env[i], gitOrigin[i])]
    /\ UNCHANGED <<env, gitOrigin>>
    /\ DevOnly

NextDev == \E i \in Invocations : CallGetDeviceIdSalt(i)

SpecDev == InitDev /\ [][NextDev]_vars

-----------------------------------------------------------------------------
(***************************************************************************)
(* core/configurator.go: langsAnalyzers and the selection over it          *)
(***************************************************************************)

\* The longest language sequence handed to the selector.
MaxLanguages == 3

\* Image(code): the image name of a product code, a fixed naming transform.
Image(code) == "jetbrains/qodana-" \o code

QDJVMC == "QDJVMC"

QDJVM == "QDJVM"

QDANDC == "QDANDC"

QDPHP == "QDPHP"

QDPYC == "QDPYC"

QDPY == "QDPY"

QDJS == "QDJS"

QDGO == "QDGO"

QDNET == "QDNET"

QDNETC == "QDNETC"

\* langsAnalyzers is a map of languages to linters.
langsAnalyzers ==
    [l \in {"Java", "Kotlin", "PHP", "Python", "JavaScript", "TypeScript", "Go",
            "C#", "F#", "Visual Basic .NET"} |->
        CASE l \in {"Java", "Kotlin"} -> <<Image(QDJVMC), Image(QDJVM), Image(QDANDC)>>
          [] l = "PHP" -> <<Image(QDPHP)>>
          [] l = "Python" -> <<Image(QDPYC), Image(QDPY)>>
          [] l \in {"JavaScript", "TypeScript"} -> <<Image(QDJS)>>
          [] l = "Go" -> <<Image(QDGO)>>
          [] OTHER -> <<QDNET, Image(QDNET), Image(QDNETC)>>]

\* The languages the selector is tried on; "Rust" is not in the table.
SelectorLanguages == {"Java", "Kotlin", "Go", "C#", "Python", "Rust"}

RECURSIVE SeqsUpTo(_, _)
SeqsUpTo(S, n) ==
    IF n = 0 THEN {<<>>}
    ELSE LET shorter == SeqsUpTo(S, n - 1)
         IN  shorter \cup {Append(q, x) : q \in {t \in shorter : Len(t) = n - 1}, x \in S}

\* analyzers = Append(analyzers, l) for each l of a candidate list
RECURSIVE AppendEach(_, _)
AppendEach(slice, candidates) ==
    IF candidates = <<>> THEN slice
    ELSE AppendEach(PlatformAppend(slice, Head(candidates)), Tail(candidates))

InitSel ==
    /\ IdleFus
    /\ IdleDev
    /\ IdleProp
    /\ IdleScan
    /\ languages \in SeqsUpTo(SelectorLanguages, MaxLanguages)
    /\ langPos = 1
    /\ analyzers = <<>>

\* One round of the selector's loop: look the language up, append what is new.
SelectLanguage ==
    /\ langPos <= Len(languages)
    /\ analyzers' =
         IF languages[langPos] \in DOMAIN langsAnalyzers
         THEN AppendEach(analyzers, langsAnalyzers[languages[langPos]])
         ELSE analyzers
    /\ langPos' = langPos + 1
    /\ UNCHANGED languages
    /\ SelOnly

NextSel == SelectLanguage

SpecSel == InitSel /\ [][NextSel]_vars

-----------------------------------------------------------------------------
(***************************************************************************)
(* core/properties.go: getPropertiesMap, GetProperties, getCustomPluginPaths *)
(***************************************************************************)

\* The longest list of raw flag tokens opts.Properties() returns.
MaxFlags == 2

\* The runs of GetProperties on the same inputs that are compared.
Runs == {1, 2}

\* filepath.Join on clean elements: the non-empty ones, separated by "/".
RECURSIVE PathJoin(_)
PathJoin(elems) ==
    IF elems = <<>> THEN ""
    ELSE IF Head(elems) = "" THEN PathJoin(Tail(elems))
    ELSE LET rest == PathJoin(Tail(elems))
         IN  IF rest = "" THEN Head(elems) ELSE Head(elems) \o "/" \o rest

\* strings.Join(elems, sep)
RECURSIVE StringsJoin(_, _)
StringsJoin(elems, sep) ==
    IF elems = <<>> THEN ""
    ELSE IF Len(elems) = 1 THEN Head(elems)
    ELSE Head(elems) \o sep \o StringsJoin(Tail(elems), sep)

\* strconv.FormatBool
FormatBool(b) == IF b THEN "true" ELSE "false"

\* Insertion of one string into a sorted sequence.
RECURSIVE InsertSorted(_, _)
InsertSorted(sorted, x) ==
    IF sorted = <<>> THEN <<x>>
    ELSE IF StrLess(x, Head(sorted)) THEN <<x>> \o sorted
    ELSE <<Head(sorted)>> \o InsertSorted(Tail(sorted), x)

\* sort.Strings: the sequence in ascending bytewise order.
RECURSIVE SortStrings(_)
SortStrings(q) ==
    IF q = <<>> THEN <<>> ELSE InsertSorted(SortStrings(Tail(q)), Head(q))

\* The orders in which a range over a map may visit the keys in S.
RECURSIVE Orders(_)
Orders(S) ==
    IF S = {} THEN {<<>>}
    ELSE UNION {{<<k>> \o rest : rest \in Orders(S \ {k})} : k \in S}

\* The elements of a set of strings in ascending order.
RECURSIVE SortedSeqOf(_)
SortedSeqOf(S) ==
    IF S = {} THEN <<>>
    ELSE LET m == CHOOSE x \in S : \A y \in S \ {x} : StrLess(x, y)
         IN  <<m>> \o SortedSeqOf(S \ {m})

\* The visiting orders of a range over a larger map: the runtime starts at a
\* random entry and wraps around.
Rotations(q) ==
    {SubSeq(q, i, Len(q)) \o SubSeq(q, 1, i - 1) : i \in 1..Len(q)} \cup {q}

\* m[k] = v
MapSet(m, k, v) == [x \in DOMAIN m \cup {k} |-> IF x = k THEN v ELSE m[x]]

containerJvmDebugPort == "5005"

DenyListedFrameworks ==
    "!net48;!net472;!net471;!net47;!net462;!net461;!net46;!net452;!net451;!net45;!net403;!net40;!net35;!net20;!net11"

\* platform.IsContainer
IsContainer == propEnv.QODANA_DOCKER # ""

\* The Frameworks branch injecting the denylist outside containers too.
DotNetFrameworksAlways(dotNet, properties) ==
    IF dotNet.Frameworks # ""
    THEN MapSet(properties, "-Dqodana.net.targetFrameworks", QuoteIfSpace(dotNet.Frameworks))
    ELSE MapSet(properties, "-Dqodana.net.targetFrameworks", DenyListedFrameworks)

\* getPropertiesMap: the Frameworks branch
DotNetFrameworks(dotNet, properties) ==
    IF dotNet.Frameworks # ""
    THEN MapSet(properties, "-Dqodana.net.targetFrameworks", QuoteIfSpace(dotNet.Frameworks))
    ELSE IF IsContainer
    THEN MapSet(properties, "-Dqodana.net.targetFrameworks", DenyListedFrameworks)
    ELSE properties

\* getPropertiesMap: the keys set when prefix == "Rider"
DotNetProperties(dotNet, properties) ==
    LET p1 == IF dotNet.Project # ""
              THEN MapSet(properties, "-Dqodana.net.project", QuoteIfSpace(dotNet.Project))
              ELSE IF dotNet.Solution # ""
              THEN MapSet(properties, "-Dqodana.net.solution", QuoteIfSpace(dotNet.Solution))
              ELSE properties
        p2 == IF dotNet.Configuration # ""
              THEN MapSet(p1, "-Dqodana.net.configuration", QuoteIfSpace(dotNet.Configuration))
              ELSE p1
        p3 == IF dotNet.Platform # ""
              THEN MapSet(p2, "-Dqodana.net.platform", QuoteIfSpace(dotNet.Platform))
              ELSE p2
    IN  DotNetFrameworks(dotNet, p3)

\* getPropertiesMap
getPropertiesMap(prefix, systemDir, logDir, confDir, pluginsDir, dotNet, idSalt, pluginIds, analysisId, coverageDir) ==
    LET p0 == [k \in {"-Didea.headless.enable.statistics",
                      "-Didea.headless.statistics.device.id",
                      "-Didea.headless.statistics.salt",
                      "-Didea.config.path",
                      "-Didea.system.path",
                      "-Didea.plugins.path",
                      "-Didea.log.path",
                      "-Dqodana.automation.guid",
                      "-XX:MaxRAMPercentage"} |->
                 CASE k = "-Didea.headless.enable.statistics" -> FormatBool(allowedFUS)
                   [] k = "-Didea.headless.statistics.device.id" -> idSalt[1]
                   [] k = "-Didea.headless.statistics.salt" -> idSalt[2]
                   [] k = "-Didea.config.path" -> QuoteIfSpace(confDir)
                   [] k = "-Didea.system.path" -> QuoteIfSpace(systemDir)
                   [] k = "-Didea.plugins.path" -> QuoteIfSpace(pluginsDir)
                   [] k = "-Didea.log.path" -> QuoteIfSpace(logDir)
                   [] k = "-Dqodana.automation.guid" -> QuoteIfSpace(analysisId)
                   [] OTHER -> "70"]
        p1 == IF coverageDir # ""
              THEN MapSet(p0, "-Dqodana.coverage.input", QuoteIfSpace(coverageDir))
              ELSE p0
        p2 == IF Len(pluginIds) > 0
              THEN MapSet(p1, "-Didea.required.plugins.id", StringsJoin(pluginIds, ","))
              ELSE p1
    IN  IF prefix = "Rider" THEN DotNetProperties(dotNet, p2) ELSE p2

RECURSIVE JoinedUnder(_, _)
JoinedUnder(path, names) ==
    IF names = <<>> THEN <<>>
    ELSE <<PathJoin(<<path, Head(names)>>)>> \o JoinedUnder(path, Tail(names))

\* getCustomPluginPaths: "" when the directory does not exist, else the
\* comma-joined paths of its entries.
getCustomPluginPaths ==
    IF ~prod.CustomPluginsExists THEN ""
    ELSE StringsJoin(JoinedUnder(prod.CustomPluginsPath, prod.CustomPluginsFiles), ",")

\* The key a layer entry is stored under: "-D" is put before a key that does
\* not start with "-".
RewriteKey(k) == IF ~HasPrefix(k, "-") THEN "-D" \o k ELSE k

\* The override loop storing every entry under its raw key.
RECURSIVE MergeLayerRaw(_, _, _)
MergeLayerRaw(props, layer, order) ==
    IF order = <<>> THEN props
    ELSE MergeLayerRaw(MapSet(props, Head(order), layer[Head(order)]), layer, Tail(order))

\* for k, v := range layer { ...; props[k] = v }, visiting the keys in `order`
RECURSIVE MergeLayer(_, _, _)
MergeLayer(props, layer, order) ==
    IF order = <<>> THEN props
    ELSE MergeLayer(MapSet(props, RewriteKey(Head(order)), layer[Head(order)]),
                    layer, Tail(order))

\* The flag loop appending every non-empty token, present or not.
RECURSIVE MergeFlagsKeepAll(_, _)
MergeFlagsKeepAll(lines, flags) ==
    IF flags = <<>> THEN lines
    ELSE MergeFlagsKeepAll(IF Head(flags) # "" THEN Append(lines, Head(flags)) ELSE lines,
                           Tail(flags))

\* for _, f := range flags { if f != "" && !Contains(lines, f) { append } }
RECURSIVE MergeFlags(_, _)
MergeFlags(lines, flags) ==
    IF flags = <<>> THEN lines
    ELSE MergeFlags(IF Head(flags) # "" /\ ~Contains(lines, Head(flags))
                    THEN Append(lines, Head(flags))
                    ELSE lines,
                    Tail(flags))

\* lines = append(lines, fmt.Sprintf("%s=%s", k, v)), visiting the keys in `order`
RECURSIVE FlattenProps(_, _, _)
FlattenProps(lines, props, order) ==
    IF order = <<>> THEN lines
    ELSE FlattenProps(Append(lines, Head(order) \o "=" \o props[Head(order)]),
                      props, Tail(order))

\* The base line list of GetProperties, before the flags.
BaseLines ==
    LET l0 == <<"-Xlog:gc*:" \o QuoteIfSpace(PathJoin(<<opts.LogDir, "gc.log">>))>>
        l1 == IF opts.JvmDebugPort > 0
              THEN Append(l0, "-agentlib:jdwp=transport=dt_socket,server=y,suspend=y,address=*:"
                              \o containerJvmDebugPort)
              ELSE l0
        l2 == IF propEnv.QODANA_TREAT_AS_RELEASE = "true"
              THEN Append(l1, "-Deap.require.license=release")
              ELSE l1
        custom == getCustomPluginPaths
    IN  IF custom # "" THEN Append(l2, "-Dplugin.path=" \o custom) ELSE l2

\* props := getPropertiesMap(...) as GetProperties calls it
DefaultProps ==
    getPropertiesMap(
        prod.parentPrefix,
        PathJoin(<<opts.CacheDir, "idea", prod.versionBranch>>),
        opts.LogDir,
        opts.ConfDir,
        PathJoin(<<opts.CacheDir, "plugins", prod.versionBranch>>),
        dotNetOptions,
        GetDeviceIdSalt(propEnv, [err |-> TRUE, out |-> ""]),
        plugins,
        opts.AnalysisId,
        opts.CoverageDir)

\* The two override loops run the other way round: CLI first, qodana.yaml last.
MergedPropsYamlLast(yamlOrder, cliOrder) ==
    MergeLayer(MergeLayer(DefaultProps, opts.cliProps, cliOrder), yamlProps, yamlOrder)

\* The merged options map of GetProperties: the defaults, then qodana.yaml,
\* then the CLI, each loop visiting its keys in the order given.
MergedProps(yamlOrder, cliOrder) ==
    MergeLayer(MergeLayer(DefaultProps, yamlProps, yamlOrder), opts.cliProps, cliOrder)

\* GetProperties returning the lines as the last loop left them.
GetPropertiesUnsorted(yamlOrder, cliOrder, flatOrder) ==
    FlattenProps(MergeFlags(BaseLines, opts.flags), MergedProps(yamlOrder, cliOrder),
                 flatOrder)

\* GetProperties; yamlOrder, cliOrder and flatOrder are the orders in which
\* the three range loops over maps visit their keys.
GetProperties(yamlOrder, cliOrder, flatOrder) ==
    LET lines == MergeFlags(BaseLines, opts.flags)
        props == MergedProps(yamlOrder, cliOrder)
    IN  SortStrings(FlattenProps(lines, props, flatOrder))

YamlChoices ==
    {<<>>,
     [k \in {"idea.log.path"} |-> "/y"],
     [k \in {"idea.log.path", "-Didea.log.path"} |-> IF k = "idea.log.path" THEN "/y1" ELSE "/y2"],
     [k \in {"k"} |-> "2"]}

CliChoices ==
    {<<>>,
     [k \in {"-Didea.log.path"} |-> "/c"],
     [k \in {"k"} |-> "3"],
     [k \in {"k", "-Dk"} |-> IF k = "k" THEN "3" ELSE "4"]}

FlagTokens == {"", "-Deap.require.license=release", "-XX:MaxRAMPercentage=50"}

OptsOf(logDir, port, coverage, cli, flags) ==
    [LogDir |-> logDir, JvmDebugPort |-> port, CacheDir |-> "/cache", ConfDir |-> "/conf",
     AnalysisId |-> "a-1", CoverageDir |-> coverage, cliProps |-> cli, flags |-> flags]

ProdOf(prefix, customExists) ==
    [parentPrefix |-> prefix, versionBranch |-> "233", CustomPluginsPath |-> "/cp",
     CustomPluginsExists |-> customExists, CustomPluginsFiles |-> <<"a.jar", "b.jar">>]

EnvOf(release, docker, frameworks, deviceId) ==
    [SALT |-> "s41t", DEVICEID |-> deviceId, QODANA_REMOTE_URL |-> "",
     QODANA_TREAT_AS_RELEASE |-> release, QODANA_DOCKER |-> docker,
     FRAMEWORKS |-> frameworks]

DotNetOf(project, solution, frameworks) ==
    [Project |-> project, Solution |-> solution, Configuration |-> "",
     Platform |-> IF solution # "" THEN "Any CPU" ELSE "", Frameworks |-> frameworks]

\* Inputs that vary the two override layers, on a plain run.
LayerInputs ==
    /\ \E cli \in CliChoices : opts = OptsOf("/res/log", 0, "", cli, <<>>)
    /\ yamlProps \in YamlChoices
    /\ dotNetOptions = DotNetOf("", "", "")
    /\ plugins = <<>>
    /\ prod = ProdOf("IU", FALSE)
    /\ propEnv = EnvOf("", "", "", "dev-1")

\* Inputs that vary the raw flag tokens and the base line a token may repeat.
FlagInputs ==
    /\ \E cli \in {<<>>, [k \in {"-XX:MaxRAMPercentage"} |-> "60"],
                     [k \in {"eap.require.license"} |-> "eap"]},
          flags \in SeqsUpTo(FlagTokens, MaxFlags) :
          opts = OptsOf("/res/log", 0, "", cli, flags)
    /\ yamlProps = <<>>
    /\ dotNetOptions = DotNetOf("", "", "")
    /\ plugins = <<>>
    /\ prod = ProdOf("IU", FALSE)
    /\ \E release \in {"", "true"} : propEnv = EnvOf(release, "", "", "dev-1")

\* Inputs that vary the base lines and the quoting of paths.
BaseInputs ==
    /\ \E logDir \in {"/res/log", "/my res/log"}, port \in {0, 5005} :
          opts = OptsOf(logDir, port, "", <<>>, <<>>)
    /\ yamlProps = <<>>
    /\ dotNetOptions = DotNetOf("", "", "")
    /\ plugins = <<>>
    /\ \E custom \in BOOLEAN : prod = ProdOf("IU", custom)
    /\ \E deviceId \in {"", "dev-1"} : propEnv = EnvOf("", "", "", deviceId)

\* Inputs that vary the product, the .NET options and the environment.
DotNetInputs ==
    /\ \E coverage \in {"", "/cov"} : opts = OptsOf("/res/log", 0, coverage, <<>>, <<>>)
    /\ yamlProps = <<>>
    /\ \E project \in {"", "a.csproj"}, solution \in {"", "a.sln"},
          frameworks \in {"", "net8.0"} :
          dotNetOptions = DotNetOf(project, solution, frameworks)
    /\ plugins \in {<<>>, <<"org.p1", "org.p2">>}
    /\ \E prefix \in {"Rider", "IU"} : prod = ProdOf(prefix, FALSE)
    /\ \E docker \in {"", "true"}, frameworks \in {"", "net8.0"} :
          propEnv = EnvOf("", docker, frameworks, "dev-1")

InitProp ==
    /\ IdleFus
    /\ IdleDev
    /\ IdleSel
    /\ IdleScan
    /\ LayerInputs \/ FlagInputs \/ BaseInputs \/ DotNetInputs
    /\ propLines = [r \in Runs |-> "none"]
    /\ defaultProps = [r \in Runs |-> "none"]

\* One run of GetProperties on the inputs.
RunGetProperties(r) ==
    /\ propLines[r] = "none"
    /\ \E yamlOrder \in Orders(DOMAIN yamlProps), cliOrder \in Orders(DOMAIN opts.cliProps) :
          \E flatOrder \in Rotations(SortedSeqOf(DOMAIN MergedProps(yamlOrder, cliOrder))) :
              propLines' = [propLines EXCEPT ![r] = GetProperties(yamlOrder, cliOrder, flatOrder)]
    /\ defaultProps' = [defaultProps EXCEPT ![r] = DefaultProps]
    /\ UNCHANGED <<opts, yamlProps, dotNetOptions, plugins, prod, propEnv>>
    /\ PropOnly

NextProp == \E r \in Runs : RunGetProperties(r)

SpecProp == InitProp /\ [][NextProp]_vars

-----------------------------------------------------------------------------
(***************************************************************************)
(* core/configurator.go: recognizeDirLanguages over filepath.Walk          *)
(***************************************************************************)

\* How many files the project's one subdirectory holds.
MaxDirFiles == 2

limitKb == 64

ignoredDirectories == <<".idea", ".vscode", ".git">>

\* The segments of the project path the scan is started on.
ProjectPath == <<"home", "proj">>

Min(a, b) == IF a < b THEN a ELSE b

IsProperPrefix(p, q) == Len(p) < Len(q) /\ SubSeq(q, 1, Len(p)) = p

\* strings.Split(path, separator), then the two loops: some segment of the
\* path is one of the ignored names.
isInIgnoredDirectory(path) ==
    \E i \in 1..Len(path) : \E j \in 1..Len(ignoredDirectories) :
        path[i] = ignoredDirectories[j]

\* An entry of the tree.  path is relative to the project root (<<>> is the
\* root itself).  lstatErr and readDirErr are the two errors filepath.Walk
\* passes to the callback; heuristics is the verdict of enry.IsVendor,
\* IsDotFile, IsDocumentation, IsConfiguration and IsGenerated(relpath, nil) on
\* the entry's own relative path; generated is IsGenerated on the content
\* sample; language is enry.GetLanguage ("" is enry.OtherLanguage) and
\* programming is GetLanguageType(language) = Programming.
Entry(path, isDir) ==
    [path |-> path, isDir |-> isDir, lstatErr |-> FALSE, readDirErr |-> FALSE,
     heuristics |-> FALSE, openErr |-> FALSE, size |-> 10, generated |-> FALSE,
     language |-> "", programming |-> FALSE]

FileKinds ==
    {"go", "java", "text", "markup", "config", "generated", "unreadable",
     "nolstat", "big", "medium"}

SiblingKinds == {"go", "java", "config"}

RootFileKinds == {"go", "java", "nolstat"}

FileOf(path, kind) ==
    LET f == Entry(path, FALSE)
        go == [f EXCEPT !.language = "Go", !.programming = TRUE]
    IN  CASE kind = "go" -> go
          [] kind = "java" -> [f EXCEPT !.language = "Java", !.programming = TRUE]
          [] kind = "text" -> f
          [] kind = "markup" -> [f EXCEPT !.language = "HTML"]
          [] kind = "config" -> [go EXCEPT !.heuristics = TRUE]
          [] kind = "generated" -> [go EXCEPT !.generated = TRUE]
          [] kind = "unreadable" -> [go EXCEPT !.openErr = TRUE]
          [] kind = "nolstat" -> [go EXCEPT !.lstatErr = TRUE]
          [] kind = "big" -> [go EXCEPT !.size = 70000]
          [] kind = "medium" -> [go EXCEPT !.size = 1000]

DirNames == {".github", ".idea", "src", "vendor"}

DirErrors == {"none", "lstat", "readdir"}

\* The path heuristics on a directory's own relative path: the dot
\* directories and vendor are positive.
DirHeuristics(name) == name \in {".github", ".idea", "vendor"}

\* The vendor patterns match every path below the directory; the dotfile
\* heuristic looks at the last path element only.
UnderVendor(name, f) ==
    IF name = "vendor" THEN [f EXCEPT !.heuristics = TRUE] ELSE f

DirOf(name, err) ==
    [Entry(<<name>>, TRUE) EXCEPT !.heuristics = DirHeuristics(name),
                                  !.lstatErr = (err = "lstat"),
                                  !.readDirErr = (err = "readdir")]

RootOf(err) ==
    [Entry(<<>>, TRUE) EXCEPT !.lstatErr = (err = "lstat"),
                              !.readDirErr = (err = "readdir")]

FileName(i) == <<"f1", "f2", "f3">>[i]

\* The tree in the order the walk meets its entries (each directory's names
\* in lexical order): the root, its subdirectory, the subdirectory's files,
\* and a file of the root.
TreeOf(rootErr, name, dirErr, kinds, rootKind) ==
    <<RootOf(rootErr), DirOf(name, dirErr)>>
    \o [i \in 1..MaxDirFiles |->
            UnderVendor(name, FileOf(<<name, FileName(i)>>, kinds[i]))]
    \o <<FileOf(<<"w">>, rootKind)>>

Trees ==
    {TreeOf(rootErr, name, dirErr, kinds, rootKind) :
        rootErr \in DirErrors, name \in DirNames, dirErr \in DirErrors,
        kinds \in {k \in [1..MaxDirFiles -> FileKinds] :
                      \A i \in 2..MaxDirFiles : k[i] \in SiblingKinds},
        rootKind \in RootFileKinds}

Scans == {1, 2}

\* The callback returned before it had a content sample.
NoRead == {}

EmptyCounts == <<>>

\* A scan that has not returned yet.
NotReturned == [returned |-> FALSE, languages |-> <<>>, err |-> "nil"]

\* readFile(path, limit): the number of bytes of the sample, or the error.
readFile(e, limit) ==
    IF limit <= 0 THEN [err |-> e.openErr, len |-> e.size]
    ELSE IF e.openErr THEN [err |-> TRUE, len |-> 0]
    ELSE [err |-> FALSE, len |-> Min(e.size, limit)]

\* out[language] += 1
Increment(counts, language) ==
    MapSet(counts, language,
           (IF language \in DOMAIN counts THEN counts[language] ELSE 0) + 1)

\* f.Mode().IsRegular(): the tree holds directories and regular files only.
IsRegular(e) == ~e.isDir

\* The walk callback handing the walk's error back instead of skipping.
WalkFnReturnErr(e, counts) ==
    IF e.lstatErr \/ e.readDirErr
    THEN [err |-> "err", out |-> counts, read |-> NoRead]
    ELSE [err |-> "nil",
          out |-> IF ~e.isDir /\ ~e.heuristics /\ ~e.openErr /\ ~e.generated
                     /\ e.programming /\ ~isInIgnoredDirectory(e.path)
                  THEN Increment(counts, e.language) ELSE counts,
          read |-> NoRead]

\* The walk callback on one entry: what it returns, the counters after it and
\* the length of the content sample it took (NoRead when it took none).
WalkFn(e, counts) ==
    LET ret(r) == [err |-> r, out |-> counts, read |-> NoRead]
        content == readFile(e, limitKb)
    IN  IF e.lstatErr \/ e.readDirErr THEN ret("SkipDir")
        ELSE IF e.isDir /\ ~IsRegular(e) THEN ret("nil")
        ELSE IF e.path = <<>> THEN ret("nil")
        ELSE IF isInIgnoredDirectory(ProjectPath \o e.path) \/ e.heuristics
             THEN (IF e.isDir THEN ret("SkipDir") ELSE ret("nil"))
        ELSE IF e.isDir THEN ret("nil")
        ELSE IF content.err THEN ret("nil")
        ELSE IF e.generated \/ e.language = "" \/ ~e.programming
             THEN [ret("nil") EXCEPT !.read = {content.len}]
        ELSE [err |-> "nil", out |-> Increment(counts, e.language),
              read |-> {content.len}]

\* filepath.Walk after the callback returned r on entry e: the directories it
\* will not descend into.  SkipDir on a directory, or on an entry whose lstat
\* failed, leaves that entry's subtree out; SkipDir on a file leaves the rest
\* of its parent out; SkipDir on the root ends the walk.
SkippedAfter(e, r, skip) ==
    IF r = "SkipDir"
    THEN IF e.isDir \/ e.lstatErr \/ e.path = <<>>
         THEN skip \cup {e.path}
         ELSE skip \cup {SubSeq(e.path, 1, Len(e.path) - 1)}
    ELSE skip

\* Is the entry at position i left out of the walk?
LeftOut(t, i, skip) ==
    \E p \in skip : p = <<>> \/ IsProperPrefix(p, t[i].path)

\* The next entry the walk meets after position i.
NextPos(t, i, skip) ==
    LET rest == {j \in (i + 1)..Len(t) : ~LeftOut(t, j, skip)}
    IN  IF rest = {} THEN Len(t) + 1
        ELSE CHOOSE j \in rest : \A k \in rest : j <= k

InitScan ==
    /\ IdleFus
    /\ IdleDev
    /\ IdleSel
    /\ IdleProp
    /\ tree \in Trees
    /\ scanRun = 1
    /\ walkPos = 1
    /\ skipped = {}
    /\ out = EmptyCounts
    /\ walkErr = "nil"
    /\ counted = {}
    /\ sampled = [i \in {} |-> 0]
    /\ scanResult = [s \in Scans |-> NotReturned]

\* One call of the walk callback, and the walk's step to the next entry.
WalkVisit ==
    /\ scanRun \in Scans
    /\ walkPos <= Len(tree)
    /\ LET e == tree[walkPos]
           r == WalkFn(e, out)
           skip == SkippedAfter(e, r.err, skipped)
       IN  /\ out' = r.out
           /\ skipped' = skip
           /\ walkErr' = IF r.err \in {"nil", "SkipDir"} THEN walkErr ELSE r.err
           /\ walkPos' = IF r.err \in {"nil", "SkipDir"}
                         THEN NextPos(tree, walkPos, skip)
                         ELSE Len(tree) + 1
           /\ counted' = IF r.out # out THEN counted \cup {walkPos} ELSE counted
           /\ sampled' = IF r.read # NoRead
                         THEN MapSet(sampled, walkPos, CHOOSE n \in r.read : TRUE)
                         ELSE sampled
    /\ UNCHANGED <<tree, scanRun, scanResult>>
    /\ ScanOnly

\* The orders sort.Slice may leave the languages in: the slice is filled in
\* map iteration order, the sort is not stable, and the comparison looks at
\* the counts only.
Ranked(counts) ==
    {q \in Orders(DOMAIN counts) :
        \A i \in 1..Len(q) : \A j \in (i + 1)..Len(q) :
            counts[q[i]] >= counts[q[j]]}

\* The walk is over: rank the languages and return.
ScanReturn ==
    /\ scanRun \in Scans
    /\ walkPos > Len(tree)
    /\ IF walkErr # "nil"
       THEN scanResult' =
                [scanResult EXCEPT ![scanRun] = [returned |-> TRUE, languages |-> <<>>, err |-> walkErr]]
       ELSE \E ranking \in Ranked(out) :
                scanResult' =
                    [scanResult EXCEPT ![scanRun] =
                        [returned |-> TRUE, languages |-> ranking, err |-> "nil"]]
    /\ scanRun' = scanRun + 1
    /\ walkPos' = 1
    /\ skipped' = {}
    /\ out' = EmptyCounts
    /\ walkErr' = "nil"
    /\ UNCHANGED <<tree, counted, sampled>>
    /\ ScanOnly

NextScan == WalkVisit \/ ScanReturn

SpecScan == InitScan /\ [][NextScan]_vars

-----------------------------------------------------------------------------
(***************************************************************************)
(* Properties of the statistics path (SpecFus)                             *)
(***************************************************************************)

Tagged(e) == [e EXCEPT !.SessionId = guid]

\* C1: when sendFuserEvents, past wg.Wait() and close(ch), reads the event
\* buffer to flush it, every event a producer has enqueued on the channel has
\* already been appended to the buffer.
FlushSeesEveryEnqueuedEvent ==
    sendPc = "marshal" => \A e \in enqueued : Tagged(e) \in Range(events)

\* C10: with opts.NoStatistics set or IsAllowedToSendFUS() false, fuser.json
\* is never created and the uploader is never launched, whatever was enqueued.
NoDeliveryWhenDisabled ==
    (noStatistics \/ ~allowedFUS) => (fuserFile = "absent" /\ ~launched)

\* C10 witness: sendFuserEvents has returned on the permission check with
\* events in the buffer.
DisabledRunReturned ==
    /\ sendPc = "return"
    /\ ~noStatistics
    /\ ~allowedFUS
    /\ Len(events) > 0

-----------------------------------------------------------------------------
(***************************************************************************)
(* Properties of GetDeviceIdSalt (SpecDev)                                 *)
(***************************************************************************)

Returned(i) == deviceIdSalt[i] # <<>>

EitherAbsent(i) == env[i].SALT = "" \/ env[i].DEVICEID = ""

BothAbsent(i) == env[i].SALT = "" /\ env[i].DEVICEID = ""

RemoteUrlOf(i) == GetRemoteUrl(env[i], gitOrigin[i])

IsHex(s) == \A k \in 1..Len(s) : SubSeq(s, k, k) \in CharsOf(HexDigits)

\* 200820300000000-xxxx-xxxx-xxxx-xxxxxxxxxxxx
HasDeviceIdFormat(d) ==
    /\ Len(d) = 43
    /\ Slice(d, 0, 16) = "200820300000000-"
    /\ IsHex(Slice(d, 16, 20)) /\ Slice(d, 20, 21) = "-"
    /\ IsHex(Slice(d, 21, 25)) /\ Slice(d, 25, 26) = "-"
    /\ IsHex(Slice(d, 26, 30)) /\ Slice(d, 30, 31) = "-"
    /\ IsHex(Slice(d, 31, 43))

\* C7 as stated: whenever SALT or DEVICEID is absent the returned pair is a
\* function of the remote URL alone (same URL in, same pair out).
PairIsFunctionOfUrlWhenEitherAbsent ==
    \A i, j \in Invocations :
        (Returned(i) /\ Returned(j) /\ EitherAbsent(i) /\ EitherAbsent(j)
            /\ RemoteUrlOf(i) = RemoteUrlOf(j))
        => deviceIdSalt[i] = deviceIdSalt[j]

\* C7 amended: a value present in the environment is returned as it is; an
\* absent one is derived from the remote URL (the device id in the fixed
\* format, all zeros for an empty URL); and when both are absent the pair is
\* a function of the remote URL alone.
PairIsFunctionOfUrlWhenBothAbsent ==
    /\ \A i \in Invocations : Returned(i) =>
          /\ env[i].DEVICEID # "" => deviceIdSalt[i][1] = env[i].DEVICEID
          /\ env[i].SALT # "" => deviceIdSalt[i][2] = env[i].SALT
          /\ env[i].DEVICEID = "" => HasDeviceIdFormat(deviceIdSalt[i][1])
          /\ env[i].SALT = "" => Len(deviceIdSalt[i][2]) = 32 /\ IsHex(deviceIdSalt[i][2])
          /\ (env[i].DEVICEID = "" /\ RemoteUrlOf(i) = "") =>
                deviceIdSalt[i][1] = "200820300000000-0000-0000-0000-000000000000"
    /\ \A i, j \in Invocations :
          (Returned(i) /\ Returned(j) /\ BothAbsent(i) /\ BothAbsent(j)
              /\ RemoteUrlOf(i) = RemoteUrlOf(j))
          => deviceIdSalt[i] = deviceIdSalt[j]

\* C7 witness: two invocations, both values absent in both, the same remote
\* URL reached once through the environment and once through git.
DerivedPairsReturned ==
    /\ Returned(1) /\ Returned(2)
    /\ BothAbsent(1) /\ BothAbsent(2)
    /\ env[1].QODANA_REMOTE_URL # "" /\ env[2].QODANA_REMOTE_URL = ""
    /\ RemoteUrlOf(1) = RemoteUrlOf(2)
    /\ RemoteUrlOf(1) # ""

-----------------------------------------------------------------------------
(***************************************************************************)
(* Properties of the selector (SpecSel)                                    *)
(***************************************************************************)

SelectorDone == langPos > Len(languages)

CandidatesOf(l) == IF l \in DOMAIN langsAnalyzers THEN langsAnalyzers[l] ELSE <<>>

RECURSIVE Concatenation(_)
Concatenation(ls) ==
    IF ls = <<>> THEN <<>> ELSE CandidatesOf(Head(ls)) \o Concatenation(Tail(ls))

FirstIndex(q, x) == CHOOSE i \in 1..Len(q) : q[i] = x /\ \A k \in 1..(i - 1) : q[k] # x

\* C9: the selector's output holds no engine identifier twice, holds exactly
\* the identifiers of the concatenated candidate lists, in the order of their
\* first occurrence there; a language outside the table adds nothing; and
\* [Java, Kotlin, Go] gives Java's three candidates followed by Go's one.
SelectorOutputIsFirstSeenDeduplicated ==
    SelectorDone =>
        LET all == Concatenation(languages)
        IN  /\ \A i, j \in 1..Len(analyzers) : i # j => analyzers[i] # analyzers[j]
            /\ Range(analyzers) = Range(all)
            /\ \A i, j \in 1..Len(analyzers) :
                  i < j => FirstIndex(all, analyzers[i]) < FirstIndex(all, analyzers[j])
            /\ (\A k \in 1..Len(languages) : languages[k] \notin DOMAIN langsAnalyzers)
                  => analyzers = <<>>
            /\ languages = <<"Java", "Kotlin", "Go">> =>
                  analyzers = <<Image(QDJVMC), Image(QDJVM), Image(QDANDC), Image(QDGO)>>

\* C9 witness: the selector has finished on [Java, Kotlin, Go].
SelectorDoneOnJavaKotlinGo ==
    /\ SelectorDone
    /\ languages = <<"Java", "Kotlin", "Go">>
    /\ Len(analyzers) = 4

-----------------------------------------------------------------------------
(***************************************************************************)
(* Properties of GetProperties and getPropertiesMap (SpecProp)             *)
(***************************************************************************)

RunDone(r) == propLines[r] # "none"

LayerValues(layer, K) == {layer[k] : k \in {x \in DOMAIN layer : RewriteKey(x) = K}}

RewrittenKeys(layer) == {RewriteKey(k) : k \in DOMAIN layer}

Line(K, v) == K \o "=" \o v

RunsAgree ==
    (RunDone(1) /\ RunDone(2)) => propLines[1] = propLines[2]

DenyListInjected(r) ==
    /\ "-Dqodana.net.targetFrameworks" \in DOMAIN defaultProps[r]
    /\ defaultProps[r]["-Dqodana.net.targetFrameworks"] = DenyListedFrameworks

\* C8 as stated: the denylist is injected only in a container, with no
\* explicit Frameworks value and with no Frameworks override in the environment.
DenyListOnlyWithoutEnvOverride ==
    \A r \in Runs : (RunDone(r) /\ DenyListInjected(r)) =>
        /\ propEnv.QODANA_DOCKER # ""
        /\ dotNetOptions.Frameworks = ""
        /\ propEnv.FRAMEWORKS = ""

\* C8 amended: the denylist is injected exactly when the product prefix is
\* Rider, the process runs in a container and dotNet.Frameworks is empty; the
\* environment is read for the container marker only. A non-empty Frameworks
\* is passed on (quoted if it holds a space) and otherwise the key is absent.
DenyListOnlyInContainerWithoutFrameworks ==
    \A r \in Runs : RunDone(r) =>
        /\ DenyListInjected(r) <=>
              (prod.parentPrefix = "Rider" /\ propEnv.QODANA_DOCKER # ""
                  /\ dotNetOptions.Frameworks = "")
        /\ (prod.parentPrefix = "Rider" /\ dotNetOptions.Frameworks # "") =>
              defaultProps[r]["-Dqodana.net.targetFrameworks"]
                  = QuoteIfSpace(dotNetOptions.Frameworks)
        /\ (prod.parentPrefix # "Rider"
               \/ (dotNetOptions.Frameworks = "" /\ propEnv.QODANA_DOCKER = "")) =>
              "-Dqodana.net.targetFrameworks" \notin DOMAIN defaultProps[r]

\* C8 witness: the denylist has been injected in a container run.
DenyListInjectedInContainer ==
    /\ RunDone(1)
    /\ DenyListInjected(1)
    /\ propEnv.QODANA_DOCKER # ""

\* C11: the line sequence GetProperties returns is in ascending lexical
\* (bytewise) order, whatever base lines, flag lines and key=value lines it
\* holds.
LinesAreSorted ==
    \A r \in Runs : RunDone(r) =>
        \A i \in 1..Len(propLines[r]) : \A j \in (i + 1)..Len(propLines[r]) :
            ~StrLess(propLines[r][j], propLines[r][i])

\* C11 witness: a run has returned base lines (debug, release and custom
\* plugin lines among them) or flag lines next to the key=value lines.
SortedRunWithBaseAndFlagLines ==
    /\ RunDone(1)
    /\ \/ /\ opts.JvmDebugPort > 0
          /\ prod.CustomPluginsExists
          /\ Contains(propLines[1], "-Dplugin.path=/cp/a.jar,/cp/b.jar")
       \/ /\ propEnv.QODANA_TREAT_AS_RELEASE = "true"
          /\ Contains(propLines[1], "-XX:MaxRAMPercentage=50")
    /\ Contains(propLines[1], "-XX:MaxRAMPercentage=70")

Count(q, x) == Cardinality({i \in 1..Len(q) : q[i] = x})

\* The key=value lines the merged options map may contribute.
MergedLines ==
    UNION {{Line(K, m[K]) : K \in DOMAIN m} :
              m \in {MergedProps(yamlOrder, cliOrder) :
                         yamlOrder \in Orders(DOMAIN yamlProps),
                         cliOrder \in Orders(DOMAIN opts.cliProps)}}

\* C12: a raw flag token is added to the lines only if it is non-empty and
\* not already present verbatim: the output never holds the empty line, holds
\* each non-empty token exactly once (also when the token is given twice or
\* repeats a base line, and also when only its key is present), and holds
\* nothing else beside the base lines and one line per merged key.
FlagLinesAddedOnce ==
    \A r \in Runs : RunDone(r) =>
        LET lines == propLines[r]
            tokens == Range(opts.flags) \ {""}
            keys == DOMAIN defaultProps[r] \cup RewrittenKeys(yamlProps)
                        \cup RewrittenKeys(opts.cliProps)
        IN  /\ ~Contains(lines, "")
            /\ \A f \in tokens \ MergedLines : Count(lines, f) = 1
            /\ \A i \in 1..Len(BaseLines) : Count(lines, BaseLines[i]) = 1
            /\ Len(lines) = Len(BaseLines) + Cardinality(tokens \ Range(BaseLines))
                                + Cardinality(keys)

\* C12 witness: a run has returned with the same token given twice, the token
\* being a base line as well.
RepeatedFlagMerged ==
    /\ RunDone(1)
    /\ propEnv.QODANA_TREAT_AS_RELEASE = "true"
    /\ opts.flags = <<"-Deap.require.license=release", "-Deap.require.license=release">>
    /\ Contains(propLines[1], "-Deap.require.license=release")

\* The option key of a line: its text before the first "=" (the whole line
\* when it has none).
KeyOf(line) ==
    LET eqs == {i \in 1..Len(line) : SubSeq(line, i, i) = "="}
    IN  IF eqs = {} THEN line
        ELSE SubSeq(line, 1, (CHOOSE i \in eqs : \A j \in eqs : i <= j) - 1)

LinesWithKey(q, K) == {i \in 1..Len(q) : KeyOf(q[i]) = K}

\* The key an override entry ends up under.
OptionKey(k) == IF SubSeq(k, 1, 1) = "-" THEN k ELSE "-D" \o k

\* The keys of the merged options map.
MergedKeys(r) ==
    DOMAIN defaultProps[r] \cup {OptionKey(k) : k \in DOMAIN yamlProps}
        \cup {OptionKey(k) : k \in DOMAIN opts.cliProps}

\* The base lines and the raw flag tokens, each counted once.
RawLines == Range(BaseLines) \cup (Range(opts.flags) \ {""})

\* C15 as stated: each option key occurs in at most one line of the output.
EachKeyInOneLine ==
    \A r \in Runs : RunDone(r) =>
        \A i \in 1..Len(propLines[r]) : \A j \in (i + 1)..Len(propLines[r]) :
            KeyOf(propLines[r][i]) # KeyOf(propLines[r][j])

\* C15 amended: the lines with key K are one line for K in the merged options
\* map (none when K is not in it) and one line for each distinct base line or
\* raw flag token that spells K; so K occurs in at most one line whenever no
\* base line and no flag token spells a key of the map.
EachKeyOncePerSource ==
    \A r \in Runs : RunDone(r) =>
        \A K \in MergedKeys(r) \cup {KeyOf(propLines[r][i]) : i \in 1..Len(propLines[r])} :
            Cardinality(LinesWithKey(propLines[r], K))
                = (IF K \in MergedKeys(r) THEN 1 ELSE 0)
                    + Cardinality({l \in RawLines : KeyOf(l) = K})

\* C15 witness: a run has returned with an override whose key the defaults
\* hold too, next to a flag token spelling that key.
OverriddenKeyNextToFlag ==
    /\ RunDone(1)
    /\ "-XX:MaxRAMPercentage" \in DOMAIN opts.cliProps
    /\ Contains(opts.flags, "-XX:MaxRAMPercentage=50")
    /\ Contains(propLines[1], "-XX:MaxRAMPercentage=60")
    /\ Contains(propLines[1], "-XX:MaxRAMPercentage=50")

-----------------------------------------------------------------------------
(***************************************************************************)
(* Properties of the language scan (SpecScan)                              *)
(***************************************************************************)

ScanDone(s) == s \in DOMAIN scanResult /\ scanResult[s].returned

\* C4: two scans of the same unmodified tree return the same ordered language
\* sequence, also when two languages have the same number of files.
ScansAgree ==
    (ScanDone(1) /\ ScanDone(2)) =>
        scanResult[1].languages = scanResult[2].languages

\* A directory entry that is positively classified: a tooling-metadata name
\* on its path, or a positive path heuristic.
PositivelyClassified(e) ==
    e.isDir /\ e.path # <<>> /\ (isInIgnoredDirectory(e.path) \/ e.heuristics)

\* C5: no file below a positively classified directory increments a language
\* counter.
ClassifiedSubtreeNeverCounted ==
    \A i \in counted : \A d \in 1..Len(tree) :
        (PositivelyClassified(tree[d]) /\ IsProperPrefix(tree[d].path, tree[i].path))
            => FALSE

RootUnreadable == tree # <<>> /\ (tree[1].lstatErr \/ tree[1].readDirErr)

\* C6: when the walk reports an error for the root entry, the scan returns a
\* non-nil error.
RootFailureIsReported ==
    \A s \in Scans :
        (RootUnreadable /\ ScanDone(s)) => scanResult[s].err # "nil"

\* C13: the content sample of a surviving regular file of size s is its first
\* min(s, 65536) bytes.
SampleIsFirst64KiB ==
    \A i \in DOMAIN sampled : sampled[i] = Min(tree[i].size, 65536)

\* An entry the walk reports an error for, or a file whose content cannot be
\* read.
Failing(e) == e.lstatErr \/ e.readDirErr \/ (~e.isDir /\ e.openErr)

\* A file the scan is to count: readable, not excluded by its path, not
\* generated, in a programming language.
Countable(e) ==
    /\ ~e.isDir
    /\ ~Failing(e)
    /\ ~isInIgnoredDirectory(e.path)
    /\ ~e.heuristics
    /\ ~e.generated
    /\ e.language # ""
    /\ e.programming

\* Is entry i below a directory the walk could not enter?
BelowFailing(i) ==
    \E d \in 1..Len(tree) :
        /\ Failing(tree[d])
        /\ tree[d].path = <<>> \/ IsProperPrefix(tree[d].path, tree[i].path)

\* C14: an error on a non-root entry skips that entry (and its subtree) only:
\* the scan returns success, every countable file met after the failing entry
\* and not below it is counted and its language is in the result, and nothing
\* below a directory that failed is counted.
EntryErrorSkipsOnlyThatEntry ==
    (ScanDone(1) /\ ~RootUnreadable) =>
        /\ scanResult[1].err = "nil"
        /\ \A j \in 2..Len(tree) : Failing(tree[j]) =>
               \A i \in (j + 1)..Len(tree) :
                   (Countable(tree[i]) /\ ~BelowFailing(i)) =>
                       /\ i \in counted
                       /\ Contains(scanResult[1].languages, tree[i].language)
        /\ \A i \in counted : ~BelowFailing(i) /\ ~Failing(tree[i])

\* C14 witness: a scan has returned after the first file of the subdirectory
\* failed its lstat and the file after it was counted.
SiblingCountedAfterFailure ==
    /\ ScanDone(1)
    /\ Len(tree) >= 4
    /\ tree[3].lstatErr
    /\ 4 \in counted

=============================================================================
